---- MODULE Spec2Model ----
(***************************************************************************)
(* Model of the trivy-java-db storage layer (pkg/db: db.go, sqlite.go,     *)
(* mysql.go) and of the build command (cmd/trivy-java-db/main.go).         *)
(*                                                                         *)
(* A database is a record [objects, artifacts, indices]: the schema        *)
(* objects that exist and the rows of the two tables.  Every SQL statement *)
(* of the source is an operator on such a record; the handlers of the DB   *)
(* interface are built from those statements in the order of the code.     *)
(***************************************************************************)
EXTENDS Integers, Sequences, FiniteSets, TLC

\* ------------------------------------------------------------------ bounds

\* Longest batch handed to InsertIndexes.
MaxBatchLen == 2

\* ------------------------------------------------------------- value domains

\* (group_id, artifact_id, version, archive_type) of the Index records that
\* are inserted: two groups publishing the same artifact/version/type, and a
\* second release of one artifact with another version and packaging.
Coordinates ==
    { [group_id |-> "org.example", artifact_id |-> "lib", version |-> "1.0", archive_type |-> "jar"],
      [group_id |-> "org.other",   artifact_id |-> "lib", version |-> "1.0", archive_type |-> "jar"],
      [group_id |-> "org.example", artifact_id |-> "lib", version |-> "2.0", archive_type |-> "war"] }

\* Digests are byte strings; one byte stands for the twenty of a SHA-1.
SHA1s == { <<10>>, <<171>> }

\* A digest that is never inserted.
AbsentSHA1 == <<11>>

\* types.Index{GroupID, ArtifactID, Version, SHA1, ArchiveType}
MkIndex(g, a, v, s, t) == [group_id |-> g, artifact_id |-> a, version |-> v, sha1 |-> s, archive_type |-> t]

IndexDomain == { MkIndex(c.group_id, c.artifact_id, c.version, s, c.archive_type) : c \in Coordinates, s \in SHA1s }

\* The zero value of types.Index (`var index types.Index`).
ZeroIndex == MkIndex("", "", "", <<>>, "")

RECURSIVE SeqsUpTo(_, _)
SeqsUpTo(S, n) == IF n = 0 THEN { <<>> } ELSE SeqsUpTo(S, n - 1) \cup [1..n -> S]

Batches == SeqsUpTo(IndexDomain, MaxBatchLen)

\* Arguments of the queries.
QueryGroupIDs == { "org.example", "org.other" }
QueryArtifactIDs == { "lib", "util" }
QueryVersions == { "1.0", "2.0" }
QueryFileTypes == { "jar", "war" }

\* ------------------------------------------------------------------ hex

HexDigits == << "0", "1", "2", "3", "4", "5", "6", "7", "8", "9", "a", "b", "c", "d", "e", "f" >>
UpperHexDigits == << "0", "1", "2", "3", "4", "5", "6", "7", "8", "9", "A", "B", "C", "D", "E", "F" >>

\* encoding/hex.EncodeToString: two lower-case digits per byte.
RECURSIVE EncodeToString(_)
EncodeToString(b) ==
    IF b = <<>> THEN <<>>
    ELSE << HexDigits[(Head(b) \div 16) + 1], HexDigits[(Head(b) % 16) + 1] >> \o EncodeToString(Tail(b))

\* The value of one hex character, -1 when it is none.
FromHexChar(c) ==
    IF \E i \in 1..16 : HexDigits[i] = c THEN (CHOOSE i \in 1..16 : HexDigits[i] = c) - 1
    ELSE IF \E i \in 1..16 : UpperHexDigits[i] = c THEN (CHOOSE i \in 1..16 : UpperHexDigits[i] = c) - 1
    ELSE -1

\* A decoder that takes the low nibble first.
RECURSIVE DecodeStringLowFirst(_)
DecodeStringLowFirst(s) ==
    IF s = <<>> THEN [bytes |-> <<>>, err |-> FALSE]
    ELSE IF Len(s) = 1 THEN [bytes |-> <<>>, err |-> TRUE]
    ELSE LET hi == FromHexChar(s[1])
             lo == FromHexChar(s[2])
             rest == DecodeStringLowFirst(SubSeq(s, 3, Len(s)))
         IN IF hi < 0 \/ lo < 0 \/ rest.err THEN [bytes |-> <<>>, err |-> TRUE]
            ELSE [bytes |-> << lo * 16 + hi >> \o rest.bytes, err |-> FALSE]

\* encoding/hex.DecodeString: [bytes, err]; an odd length or a character
\* that is no hex digit is an error.
RECURSIVE DecodeString(_)
DecodeString(s) ==
    IF s = <<>> THEN [bytes |-> <<>>, err |-> FALSE]
    ELSE IF Len(s) = 1 THEN [bytes |-> <<>>, err |-> TRUE]
    ELSE LET hi == FromHexChar(s[1])
             lo == FromHexChar(s[2])
             rest == DecodeString(SubSeq(s, 3, Len(s)))
         IN IF hi < 0 \/ lo < 0 \/ rest.err THEN [bytes |-> <<>>, err |-> TRUE]
            ELSE [bytes |-> << hi * 16 + lo >> \o rest.bytes, err |-> FALSE]

\* Hex strings given to SelectIndexBySha1: the digests in lower case, one in
\* upper case, an absent digest, a string with a non-hex character and one of
\* odd length.
QueryHexes ==
    { EncodeToString(s) : s \in SHA1s \cup { AbsentSHA1 } } \cup { << "A", "B" >>, << "0", "g" >>, << "a" >> }

\* ------------------------------------------------------------- the database

\* Schema objects of both backends.
SchemaObjects == { "artifacts", "indices", "artifacts_idx", "indices_artifact_idx", "indices_sha1_idx" }

\* A database with no schema and no rows: a file that does not exist yet, or
\* a server database nothing was created in.
EmptyDB == [objects |-> {}, artifacts |-> {}, indices |-> {}]

\* The nil error.
Nil == "nil"

\* Result of a handler that changes the database.
Result(db, err) == [db |-> db, err |-> err]

\* One DDL statement: the object it is named after, the objects it creates,
\* the table an index is created on ("" for a table), IF NOT EXISTS or not.
Stmt(name, creates, on, ifNotExists) == [name |-> name, creates |-> creates, on |-> on, ifNotExists |-> ifNotExists]

\* Sqlite.Init: five statements, none with IF NOT EXISTS.
SqliteInitStmts ==
    << Stmt("artifacts", { "artifacts" }, "", FALSE),
       Stmt("indices", { "indices" }, "", FALSE),
       Stmt("artifacts_idx", { "artifacts_idx" }, "artifacts", FALSE),
       Stmt("indices_artifact_idx", { "indices_artifact_idx" }, "indices", FALSE),
       Stmt("indices_sha1_idx", { "indices_sha1_idx" }, "indices", FALSE) >>

\* Mysql.Init: two CREATE TABLE IF NOT EXISTS, the constraints and the index
\* declared inside the tables.
MysqlInitStmts ==
    << Stmt("artifacts", { "artifacts", "artifacts_idx" }, "", TRUE),
       Stmt("indices", { "indices", "indices_sha1_idx", "indices_artifact_idx" }, "", TRUE) >>

InitStmts(backend) == IF backend = "sqlite" THEN SqliteInitStmts ELSE MysqlInitStmts

\* client.Exec of one DDL statement: an existing object is an error unless the
\* statement says IF NOT EXISTS, and then nothing is created; an index needs
\* its table.
ExecDDL(db, stmt) ==
    IF stmt.name \in db.objects
    THEN IF stmt.ifNotExists THEN Result(db, Nil) ELSE Result(db, "already exists")
    ELSE IF stmt.on # "" /\ stmt.on \notin db.objects THEN Result(db, "no such table")
    ELSE Result([db EXCEPT !.objects = @ \cup stmt.creates], Nil)

\* The statements of Init from the i-th on; the first error ends Init, the
\* statements before it stay executed (DDL is not in a transaction).
\* failAt is the statement the engine fails at for a reason of its own (I/O,
\* connection), 0 for none.
RECURSIVE ExecInitFrom(_, _, _, _)
ExecInitFrom(db, stmts, i, failAt) ==
    IF i > Len(stmts) THEN Result(db, Nil)
    ELSE IF i = failAt THEN Result(db, "exec failed")
    ELSE LET r == ExecDDL(db, stmts[i])
         IN IF r.err # Nil THEN r ELSE ExecInitFrom(r.db, stmts, i + 1, failAt)

\* Sqlite.Init / Mysql.Init
EngineInit(backend, db, failAt) == ExecInitFrom(db, InitStmts(backend), 1, failAt)

\* ------------------------------------------------------------ InsertIndexes

\* Points at which a statement of InsertIndexes can fail for a reason of the
\* engine's own: Begin, the artifacts insert, the k-th indices insert, Commit.
Fault(at, k) == [at |-> at, k |-> k]
NoFault == Fault("none", 0)
InsertFaults(indexes) ==
    { NoFault, Fault("begin", 0), Fault("artifacts", 0), Fault("commit", 0) } \cup { Fault("index", k) : k \in 1..Len(indexes) }

\* The id a new artifacts row gets (INTEGER PRIMARY KEY / AUTO_INCREMENT):
\* one more than the largest.  The id is only joined on, never returned.
NextID(rows) == IF rows = {} THEN 1 ELSE (CHOOSE m \in { r.id : r \in rows } : \A r \in rows : r.id <= m) + 1

\* An insert that does not look at the unique index: a row for every pair given.
InsertArtifactRowAlways(db, g, a) ==
    [db EXCEPT !.artifacts = @ \cup { [id |-> NextID(@), group_id |-> g, artifact_id |-> a] }]

\* INSERT OR IGNORE / INSERT IGNORE of one (group_id, artifact_id): skipped when
\* the unique index artifacts_idx exists and holds the pair.
InsertArtifactRow(db, g, a) ==
    IF "artifacts_idx" \in db.objects /\ \E r \in db.artifacts : r.group_id = g /\ r.artifact_id = a
    THEN db
    ELSE [db EXCEPT !.artifacts = @ \cup { [id |-> NextID(@), group_id |-> g, artifact_id |-> a] }]

RECURSIVE InsertArtifactRows(_, _, _)
InsertArtifactRows(db, indexes, i) ==
    IF i > Len(indexes) THEN db
    ELSE InsertArtifactRows(InsertArtifactRow(db, indexes[i].group_id, indexes[i].artifact_id), indexes, i + 1)

\* insertArtifacts: one multi-row statement with a (group_id, artifact_id) per
\* Index of the batch, in batch order.
insertArtifacts(db, indexes, fault) ==
    IF fault.at = "artifacts" THEN Result(db, "exec failed")
    ELSE IF "artifacts" \notin db.objects THEN Result(db, "no such table")
    ELSE Result(InsertArtifactRows(db, indexes, 1), Nil)

\* (SELECT id FROM artifacts WHERE group_id=? AND artifact_id=?): the id of the
\* row, NULL (0 here, no row has it) when there is none.
SelectArtifactID(db, g, a) ==
    LET ids == { r.id : r \in { x \in db.artifacts : x.group_id = g /\ x.artifact_id = a } }
    IN IF ids = {} THEN 0 ELSE CHOOSE m \in ids : \A n \in ids : m <= n

\* The rowid a new indices row gets.
NextRowID(rows) == IF rows = {} THEN 1 ELSE (CHOOSE m \in { r.rowid : r \in rows } : \A r \in rows : r.rowid <= m) + 1

\* An upsert: the new row takes the place of the stored one.
OnSha1ConflictReplace(rows, row) == { r \in rows : r.sha1 # row.sha1 } \cup { row }

\* A plain insert into a table without the unique index: a second row.
OnSha1ConflictInsert(rows, row) == rows \cup { row }

\* What the insert does with a row whose sha1 is already stored:
\* ON CONFLICT(sha1) DO NOTHING / INSERT IGNORE keep the stored rows.
OnSha1Conflict(rows, row) == rows

\* The indices insert of one Index.  Sqlite's ON CONFLICT(sha1) needs the
\* unique index on sha1 to exist; both need the two tables.
InsertIndexRow(backend, db, index) ==
    IF "indices" \notin db.objects \/ "artifacts" \notin db.objects THEN Result(db, "no such table")
    ELSE IF backend = "sqlite" /\ "indices_sha1_idx" \notin db.objects THEN Result(db, "no matching unique constraint")
    ELSE LET row == [rowid |-> NextRowID(db.indices),
                     artifact_id |-> SelectArtifactID(db, index.group_id, index.artifact_id),
                     version |-> index.version, sha1 |-> index.sha1, archive_type |-> index.archive_type]
         IN IF "indices_sha1_idx" \in db.objects /\ \E r \in db.indices : r.sha1 = index.sha1
            THEN Result([db EXCEPT !.indices = OnSha1Conflict(@, row)], Nil)
            ELSE Result([db EXCEPT !.indices = @ \cup { row }], Nil)

\* The loop over the batch: the first failing statement ends it.
RECURSIVE InsertIndexRows(_, _, _, _, _)
InsertIndexRows(backend, db, indexes, i, fault) ==
    IF i > Len(indexes) THEN Result(db, Nil)
    ELSE IF fault = Fault("index", i) THEN Result(db, "exec failed")
    ELSE LET r == InsertIndexRow(backend, db, indexes[i])
         IN IF r.err # Nil THEN r ELSE InsertIndexRows(backend, r.db, indexes, i + 1, fault)

\* Statements run outside the transaction: what they wrote stays.
RollbackKeep(before, tx) == tx

\* `defer tx.Rollback()`: what the database holds once a transaction that did
\* not commit has ended: before is the database at Begin, tx what the
\* statements of the transaction made of it.
Rollback(before, tx) == before

\* Sqlite.InsertIndexes / Mysql.InsertIndexes
InsertIndexes(backend, db, indexes, fault) ==
    IF Len(indexes) = 0 THEN Result(db, Nil)
    ELSE IF fault.at = "begin" THEN Result(db, "begin failed")
    ELSE LET a == insertArtifacts(db, indexes, fault)
         IN IF a.err # Nil THEN Result(Rollback(db, a.db), "insert error")
            ELSE LET r == InsertIndexRows(backend, a.db, indexes, 1, fault)
                 IN IF r.err # Nil THEN Result(Rollback(db, r.db), "unable to insert to 'indices' table")
                    ELSE IF fault.at = "commit" THEN Result(Rollback(db, r.db), "commit failed")
                    ELSE Result(r.db, Nil)

\* ------------------------------------------------------------------ queries

\* indices i JOIN artifacts a ON a.id = i.artifact_id
JoinRows(db) == { [i |-> i, a |-> a] : i \in db.indices, a \in db.artifacts }

Joined(db) == { j \in JoinRows(db) : j.a.id = j.i.artifact_id }

\* The columns scanned into a types.Index: group_id and artifact_id of the
\* artifacts row a, version, sha1 and archive_type of the indices row i.
ScanIndex(a, i) == MkIndex(a.group_id, a.artifact_id, i.version, i.sha1, i.archive_type)

\* Outcome of a query: the Index of the single-row queries, the rows of the
\* multi-row query as a bag (Index -> number of times it is returned; the
\* order of the rows is the engine's), and the error.
Outcome(index, indexes, err) == [index |-> index, indexes |-> indexes, err |-> err]

NoRows == [x \in {} |-> 0]

HasTables(db) == "indices" \in db.objects /\ "artifacts" \in db.objects

\* QueryRow(...).Scan: sql.ErrNoRows leaves the zero value and is no error;
\* with several rows the first one is scanned, which one is the engine's
\* choice.  The set of the outcomes the call can have.
ScanFirst(rows) ==
    IF rows = {} THEN { Outcome(ZeroIndex, NoRows, Nil) } ELSE { Outcome(r, NoRows, Nil) : r \in rows }

\* Sqlite.SelectIndexBySha1 / Mysql.SelectIndexBySha1
SelectIndexBySha1(db, sha1) ==
    LET sha1b == DecodeString(sha1)
    IN IF sha1b.err THEN { Outcome(ZeroIndex, NoRows, "sha1 decode error") }
       ELSE IF ~HasTables(db) THEN { Outcome(ZeroIndex, NoRows, "select index error") }
       ELSE ScanFirst({ ScanIndex(j.a, j.i) : j \in { x \in Joined(db) : x.i.sha1 = sha1b.bytes } })

\* Sqlite.SelectIndexByArtifactIDAndGroupID / Mysql.SelectIndexByArtifactIDAndGroupID
SelectIndexByArtifactIDAndGroupID(db, artifactID, groupID) ==
    IF ~HasTables(db) THEN { Outcome(ZeroIndex, NoRows, "select index error") }
    ELSE ScanFirst({ ScanIndex(j.a, j.i) : j \in { x \in Joined(db) : x.a.group_id = groupID /\ x.a.artifact_id = artifactID } })

\* A subquery that also fixes the group to the one of the first artifact.
SubqueryFIDOneGroup(db, artifactID, version, fileType) ==
    { j \in Joined(db) : /\ j.a.artifact_id = artifactID /\ j.i.version = version /\ j.i.archive_type = fileType
                         /\ \A x \in db.artifacts : x.artifact_id = artifactID => j.a.id <= x.id }

\* The subquery f_id: one row (a.id, a.group_id, a.artifact_id) for every
\* indices row of the given version and archive_type whose artifact has the
\* given artifact_id.
SubqueryFID(db, artifactID, version, fileType) ==
    { j \in Joined(db) : j.a.artifact_id = artifactID /\ j.i.version = version /\ j.i.archive_type = fileType }

\* indices i JOIN f_id ON f_id.id = i.artifact_id: one result row for every
\* pair of an indices row and an f_id row of the same artifact.
OuterJoin(db, artifactID, version, fileType) ==
    { [i |-> i, f |-> f] : i \in db.indices, f \in SubqueryFID(db, artifactID, version, fileType) }

ResultPairs(db, artifactID, version, fileType) ==
    { p \in OuterJoin(db, artifactID, version, fileType) : p.f.a.id = p.i.artifact_id }

\* Sqlite.SelectIndexesByArtifactIDAndFileType / Mysql.SelectIndexesByArtifactIDAndFileType
SelectIndexesByArtifactIDAndFileType(db, artifactID, version, fileType) ==
    IF ~HasTables(db) THEN { Outcome(ZeroIndex, NoRows, "select indexes error") }
    ELSE LET pairs == ResultPairs(db, artifactID, version, fileType)
             rows == { ScanIndex(p.f.a, p.i) : p \in pairs }
         IN { Outcome(ZeroIndex, [x \in rows |-> Cardinality({ p \in pairs : ScanIndex(p.f.a, p.i) = x })], Nil) }

\* --------------------------------------------------------- paths and targets

\* db.go: dbFileName
dbFileName == "trivy-java.db"

\* The --cache-dir of the command; a path is the sequence of its elements.
cacheDir == << "cache" >>

\* filepath.Join(cacheDir, dbFileName)
path(dir) == dir \o << dbFileName >>

\* main.go build: dbDir := filepath.Join(cacheDir, "db")
dbDir == cacheDir \o << "db" >>

\* The values of --db-path the model builds with: the file Reset removes, and
\* the file in the db directory that New makes.
DBPaths == { path(cacheDir), path(dbDir) }

\* The value of --db-connect-url.
DBConnectURL == << "tcp(db:3306)/javadb" >>

\* Where a database lives: a file (sqlite) or a server database (mysql).
Targets == DBPaths \cup { DBConnectURL }

\* types.DBConfig with one of SqliteDBConfig{DBPath}, MysqlDBConfig{DBConnectURL} set.
Config(backend, target) == [backend |-> backend, target |-> target]
SqliteConfigs == { Config("sqlite", p) : p \in DBPaths }
MysqlConfig == Config("mysql", DBConnectURL)
Configs == SqliteConfigs \cup { MysqlConfig }

\* ------------------------------------------------------------------- state

VARIABLES
    store,      \* Targets -> database: what each file or server database holds
    engines,    \* the open DB values (Sqlite or Mysql), each a Config
    lastOp,     \* the handler called last
    lastOut,    \* engine -> the Outcome it returned from lastOp
    lastKind,   \* what the batch committed last was to the database it went into (BatchKind)
    firstSeen,  \* sha1 -> the first Index committed with it to the database in use (ZeroIndex: none)
    conf,       \* the configuration of the build command
    pc,         \* the step of build() that runs next
    lastBuild,  \* how the last build() ended: "none", "ok", "failed"
    meta        \* whether the Metadata record exists

vars == << store, engines, lastOp, lastOut, lastKind, firstSeen, conf, pc, lastBuild, meta >>

buildVars == << conf, pc, lastBuild, meta >>

ErrOutcome(err) == Outcome(ZeroIndex, NoRows, err)

NoneSeen == [s \in SHA1s |-> ZeroIndex]

\* Of a batch, the Index that comes first for each sha1.
FirstPerSha1(indexes) ==
    { indexes[k] : k \in { n \in 1..Len(indexes) : \A j \in 1..(n - 1) : indexes[j].sha1 # indexes[n].sha1 } }

\* Whether the batch holds an Index whose sha1 was committed before with other
\* coordinates, or comes earlier in the batch with other coordinates.
TakenSha1(seen, indexes) ==
    \E k \in 1..Len(indexes) :
        \/ seen[indexes[k].sha1] \notin { ZeroIndex, indexes[k] }
        \/ \E j \in 1..(k - 1) : indexes[j].sha1 = indexes[k].sha1 /\ indexes[j] # indexes[k]

\* A batch seen from the database it is committed to: "taken" when an Index of
\* it has a sha1 that another Index has taken, "repeat" when every Index of it
\* was committed before, "new" otherwise.
BatchKind(seen, indexes) ==
    IF Len(indexes) = 0 THEN "empty"
    ELSE IF TakenSha1(seen, indexes) THEN "taken"
    ELSE IF \A k \in 1..Len(indexes) : seen[indexes[k].sha1] = indexes[k] THEN "repeat"
    ELSE "new"

\* The database of every open engine replaced by what the handler made of it.
StoreAfter(r) == [t \in Targets |-> IF \E e \in engines : e.target = t THEN r[CHOOSE e \in engines : e.target = t].db ELSE store[t]]

\* Whether every open engine returned nil.
Committed(r) == \A e \in engines : r[e].err = Nil

\* firstSeen after a batch: when it was committed, every sha1 not seen yet has
\* the first Index of the batch with it.
SeenAfter(r, indexes) ==
    IF ~Committed(r) THEN firstSeen
    ELSE [s \in SHA1s |->
            IF firstSeen[s] = ZeroIndex /\ \E k \in 1..Len(indexes) : indexes[k].sha1 = s
            THEN indexes[CHOOSE k \in 1..Len(indexes) : indexes[k].sha1 = s /\ \A j \in 1..(k - 1) : indexes[j].sha1 # s]
            ELSE firstSeen[s]]

\* ------------------------------------------------- the handlers as actions

\* DB.Init on every open engine; failAt is the statement that fails for a
\* reason of the engine's own (0: none).
CallInit(failAt) ==
    /\ pc = "api"
    /\ \E r \in { [e \in engines |-> EngineInit(e.backend, store[e.target], failAt)] } :
          /\ store' = StoreAfter(r)
          /\ lastOut' = [e \in engines |-> ErrOutcome(r[e].err)]
    /\ lastOp' = "Init"
    /\ lastKind' = "none"
    /\ UNCHANGED << engines, firstSeen, buildVars >>

\* DB.InsertIndexes(indexes) on every open engine.
CallInsertIndexes(indexes, fault) ==
    /\ pc = "api"
    /\ \E r \in { [e \in engines |-> InsertIndexes(e.backend, store[e.target], indexes, fault)] } :
          /\ store' = StoreAfter(r)
          /\ lastOut' = [e \in engines |-> ErrOutcome(r[e].err)]
          /\ firstSeen' = SeenAfter(r, indexes)
          /\ lastKind' = IF Committed(r) THEN BatchKind(firstSeen, indexes) ELSE "none"
    /\ lastOp' = "InsertIndexes"
    /\ UNCHANGED << engines, buildVars >>

\* A query on every open engine: each returns one of the outcomes it can
\* have; outcomes gives them for every engine.
CallQuery(op, outcomes) ==
    /\ pc = "api"
    /\ lastOut' \in [engines -> UNION { outcomes[e] : e \in engines }]
    /\ \A e \in engines : lastOut'[e] \in outcomes[e]
    /\ lastOp' = op
    /\ lastKind' = "none"
    /\ UNCHANGED << store, engines, firstSeen, buildVars >>

\* DB.SelectIndexBySha1(sha1)
CallSelectIndexBySha1(sha1) ==
    CallQuery("SelectIndexBySha1", [e \in engines |-> SelectIndexBySha1(store[e.target], sha1)])

\* DB.SelectIndexByArtifactIDAndGroupID(artifactID, groupID)
CallSelectIndexByArtifactIDAndGroupID(artifactID, groupID) ==
    CallQuery("SelectIndexByArtifactIDAndGroupID", [e \in engines |-> SelectIndexByArtifactIDAndGroupID(store[e.target], artifactID, groupID)])

\* DB.SelectIndexesByArtifactIDAndFileType(artifactID, version, fileType)
CallSelectIndexesByArtifactIDAndFileType(artifactID, version, fileType) ==
    CallQuery("SelectIndexesByArtifactIDAndFileType", [e \in engines |-> SelectIndexesByArtifactIDAndFileType(store[e.target], artifactID, version, fileType)])

\* Statements of Init that can fail, over both backends.
InitFaults == 0..Len(SqliteInitStmts)

Queries ==
    \/ \E sha1 \in QueryHexes : CallSelectIndexBySha1(sha1)
    \/ \E a \in QueryArtifactIDs, g \in QueryGroupIDs : CallSelectIndexByArtifactIDAndGroupID(a, g)
    \/ \E a \in QueryArtifactIDs, v \in QueryVersions, t \in QueryFileTypes : CallSelectIndexesByArtifactIDAndFileType(a, v, t)

\* One engine, opened on a target nothing was created in; any handler of the
\* DB interface is called next, and a statement may fail.
Init ==
    /\ store = [t \in Targets |-> EmptyDB]
    /\ \E c \in { Config("sqlite", path(dbDir)), MysqlConfig } : conf = c /\ engines = { c }
    /\ lastOp = "none"
    /\ lastOut = [e \in engines |-> ErrOutcome(Nil)]
    /\ lastKind = "none"
    /\ firstSeen = NoneSeen
    /\ pc = "api"
    /\ lastBuild = "none"
    /\ meta = FALSE

Next ==
    \/ \E f \in InitFaults : CallInit(f)
    \/ \E indexes \in Batches : \E fault \in InsertFaults(indexes) : CallInsertIndexes(indexes, fault)

Spec == Init /\ [][Next]_vars

\* Both engines, each on a target of its own nothing was created in, given the
\* same calls with the same arguments; no statement fails for a reason of the
\* engine's own.
InitEngines ==
    /\ store = [t \in Targets |-> EmptyDB]
    /\ conf = MysqlConfig
    /\ engines = { Config("sqlite", path(dbDir)), MysqlConfig }
    /\ lastOp = "none"
    /\ lastOut = [e \in engines |-> ErrOutcome(Nil)]
    /\ lastKind = "none"
    /\ firstSeen = NoneSeen
    /\ pc = "api"
    /\ lastBuild = "none"
    /\ meta = FALSE

NextEngines ==
    \/ CallInit(0)
    \/ \E indexes \in Batches : CallInsertIndexes(indexes, NoFault)
    \/ Queries

SpecEngines == InitEngines /\ [][NextEngines]_vars

\* ------------------------------------------------------- the build command

\* Whether path p is prefix, or is below it.
IsUnder(p, prefix) == Len(p) >= Len(prefix) /\ SubSeq(p, 1, Len(prefix)) = prefix

\* The file the Metadata record is kept in: db.NewMetadata(dbDir) binds it to
\* the db directory.
metadataPath == dbDir \o << "metadata.json" >>

\* os.RemoveAll(p) on the database files: a removed file is a database with
\* nothing in it the next time it is opened.
RemoveAll(files, p) == [t \in Targets |-> IF t \in DBPaths /\ IsUnder(t, p) THEN EmptyDB ELSE files[t]]

\* db.Reset(cacheDir): os.RemoveAll(path(cacheDir))
Reset(files, dir) == RemoveAll(files, path(dir))

\* build: db.Reset(cacheDir); fail says that the removal fails.
BuildReset(fail) ==
    /\ pc = "Reset"
    /\ IF fail
       THEN /\ pc' = "Reset"
            /\ lastBuild' = "failed"
            /\ UNCHANGED << store, firstSeen, meta >>
       ELSE /\ pc' = "New"
            /\ lastBuild' = "running"
            /\ store' = Reset(store, cacheDir)
            /\ firstSeen' = IF store'[conf.target] = store[conf.target] THEN firstSeen ELSE NoneSeen
            /\ meta' = (meta /\ ~IsUnder(metadataPath, path(cacheDir)))
    /\ lastOp' = "Reset"
    /\ lastKind' = "none"
    /\ UNCHANGED << engines, lastOut, conf >>

\* build: db.New(dbDir, conf): MkdirAll(dbDir), then NewSqlite(conf.DBPath) or
\* NewMysql(conf.DBConnectURL); neither looks at path(dbDir).  fail says that
\* the mkdir, the open or the PRAGMA fails.
BuildNew(fail) ==
    /\ pc = "New"
    /\ IF fail
       THEN /\ pc' = "Reset"
            /\ lastBuild' = "failed"
            /\ engines' = {}
       ELSE /\ pc' = "Init"
            /\ lastBuild' = "running"
            /\ engines' = { conf }
    /\ lastOp' = "New"
    /\ lastOut' = [e \in engines' |-> ErrOutcome(Nil)]
    /\ lastKind' = "none"
    /\ UNCHANGED << store, firstSeen, conf, meta >>

\* build: dbc.Init()
BuildInit(failAt) ==
    /\ pc = "Init"
    /\ \E r \in { [e \in engines |-> EngineInit(e.backend, store[e.target], failAt)] } :
          /\ store' = StoreAfter(r)
          /\ IF \E e \in engines : r[e].err # Nil
             THEN pc' = "Reset" /\ lastBuild' = "failed" /\ engines' = {}
             ELSE pc' = "Build" /\ lastBuild' = "running" /\ engines' = engines
    /\ lastOp' = "Init"
    /\ lastOut' = [e \in engines' |-> ErrOutcome(Nil)]
    /\ lastKind' = "none"
    /\ UNCHANGED << firstSeen, conf, meta >>

\* Steps of Builder.Build that can fail after the batches: the compaction and
\* the write of the Metadata record.
BuildFaults(indexes) == InsertFaults(indexes) \cup { Fault("vacuum", 0), Fault("metadata", 0) }

\* build: b.Build(cacheDir).  The Builder loads the records of the crawl
\* cache through InsertIndexes, then calls VacuumDB and writes the Metadata
\* record; the first error ends it.
BuildBuild(indexes, fault) ==
    /\ pc = "Build"
    /\ \E r \in { [e \in engines |-> InsertIndexes(e.backend, store[e.target], indexes, fault)] } :
          /\ store' = StoreAfter(r)
          /\ firstSeen' = SeenAfter(r, indexes)
          /\ lastKind' = IF Committed(r) THEN BatchKind(firstSeen, indexes) ELSE "none"
          /\ IF ~Committed(r) \/ fault.at \in { "vacuum", "metadata" }
             THEN lastBuild' = "failed" /\ meta' = meta
             ELSE lastBuild' = "ok" /\ meta' = TRUE
    /\ pc' = "Reset"
    /\ engines' = {}
    /\ lastOp' = "Build"
    /\ lastOut' = [e \in engines' |-> ErrOutcome(Nil)]
    /\ UNCHANGED << conf >>

\* The build command run again and again against one cache directory with
\* one configuration.
InitBuild ==
    /\ store = [t \in Targets |-> EmptyDB]
    /\ conf \in Configs
    /\ engines = {}
    /\ lastOp = "none"
    /\ lastOut = [e \in engines |-> ErrOutcome(Nil)]
    /\ lastKind = "none"
    /\ firstSeen = NoneSeen
    /\ pc = "Reset"
    /\ lastBuild = "none"
    /\ meta = FALSE

NextBuild ==
    \/ \E fail \in BOOLEAN : BuildReset(fail)
    \/ \E fail \in BOOLEAN : BuildNew(fail)
    \/ \E f \in InitFaults : BuildInit(f)
    \/ \E indexes \in Batches : \E fault \in BuildFaults(indexes) : BuildBuild(indexes, fault)

SpecBuild == InitBuild /\ [][NextBuild]_vars

\* ------------------------------------------------------------------ claims

\* The database of an engine.
DBOf(e) == store[e.target]

\* The indices rows with a sha1.
RowsWithSha1(db, s) == { r \in db.indices : r.sha1 = s }

\* The artifacts rows of a (group_id, artifact_id).
RowsOfPair(db, g, a) == { r \in db.artifacts : r.group_id = g /\ r.artifact_id = a }

\* Every query with every argument: what it can return from a database.
QueryResults(db) ==
    << [h \in QueryHexes |-> SelectIndexBySha1(db, h)],
       [q \in QueryArtifactIDs \X QueryGroupIDs |-> SelectIndexByArtifactIDAndGroupID(db, q[1], q[2])],
       [q \in QueryArtifactIDs \X QueryVersions \X QueryFileTypes |-> SelectIndexesByArtifactIDAndFileType(db, q[1], q[2], q[3])] >>

\* C1: whatever batches were inserted, every sha1 has at most one indices row,
\* and SelectIndexBySha1 resolves it to the Index committed first with that
\* sha1 (an earlier batch before a later one, an earlier Index of a batch
\* before a later one); a sha1 never committed has no row.
C1_FirstWriterWins ==
    \A e \in engines : \A s \in SHA1s :
        LET seen == firstSeen[s]
        IN /\ Cardinality(RowsWithSha1(DBOf(e), s)) <= 1
           /\ seen = ZeroIndex => RowsWithSha1(DBOf(e), s) = {}
           /\ seen # ZeroIndex => SelectIndexBySha1(DBOf(e), EncodeToString(s)) = { Outcome(seen, NoRows, Nil) }

\* C1 witness: a batch was committed that held an Index whose sha1 another
\* Index had taken before.
C1_Witness ==
    /\ lastOp = "InsertIndexes"
    /\ lastKind = "taken"
    /\ \E e \in engines : lastOut[e].err = Nil /\ \A s \in SHA1s : RowsWithSha1(DBOf(e), s) # {}

\* C2: in every reachable database the artifacts table has at most one row for
\* a (group_id, artifact_id), and a batch that names a pair already stored is
\* inserted without an error and leaves the row of the pair as it was.
C2_OneArtifactRowPerPair ==
    \A e \in engines :
        /\ \A r1, r2 \in DBOf(e).artifacts : (r1.group_id = r2.group_id /\ r1.artifact_id = r2.artifact_id) => r1 = r2
        /\ \A indexes \in Batches :
              LET r == InsertIndexes(e.backend, DBOf(e), indexes, NoFault)
              IN \A k \in 1..Len(indexes) :
                    RowsOfPair(DBOf(e), indexes[k].group_id, indexes[k].artifact_id) # {}
                        => /\ r.err = Nil
                           /\ RowsOfPair(r.db, indexes[k].group_id, indexes[k].artifact_id)
                                = RowsOfPair(DBOf(e), indexes[k].group_id, indexes[k].artifact_id)

\* C2 witness: one artifacts row that two indices rows refer to, so its pair
\* was inserted again after the row existed.
C2_Witness ==
    /\ lastOp = "InsertIndexes"
    /\ \E e \in engines : \E a \in DBOf(e).artifacts : Cardinality({ i \in DBOf(e).indices : i.artifact_id = a.id }) = 2

\* C6: from every reachable database, for every batch and every statement
\* that may fail: a failing statement makes InsertIndexes return an error, an
\* error leaves both tables as they were, and after nil every Index of the
\* batch has its sha1 stored (by its own row or by the row it was skipped for).
C6_AtomicBatch ==
    \A e \in engines : \A indexes \in Batches : \A fault \in InsertFaults(indexes) :
        LET r == InsertIndexes(e.backend, DBOf(e), indexes, fault)
        IN /\ (fault # NoFault /\ Len(indexes) > 0) => r.err # Nil
           /\ r.err # Nil => r.db = DBOf(e)
           /\ r.err = Nil => \A k \in 1..Len(indexes) : RowsWithSha1(r.db, indexes[k].sha1) # {}

\* C6 witness: InsertIndexes returned an error from a database that holds rows
\* and a complete schema, so the failure was one of its own statements.
C6_Witness ==
    /\ lastOp = "InsertIndexes"
    /\ \E e \in engines : lastOut[e].err # Nil /\ DBOf(e).indices # {} /\ DBOf(e).objects = SchemaObjects

\* C7: from every reachable database, a batch that InsertIndexes inserted
\* without an error is inserted a second time without an error, and every
\* query returns after the second call what it returned after the first.
C7_Idempotent ==
    \A e \in engines : \A indexes \in Batches :
        LET once == InsertIndexes(e.backend, DBOf(e), indexes, NoFault)
            twice == InsertIndexes(e.backend, once.db, indexes, NoFault)
        IN once.err = Nil => /\ twice.err = Nil
                             /\ twice.db = once.db \/ QueryResults(twice.db) = QueryResults(once.db)

\* C7 witness: a batch every Index of which had been committed before was
\* inserted again without an error.
C7_Witness ==
    /\ lastOp = "InsertIndexes"
    /\ lastKind = "repeat"
    /\ \E e \in engines : lastOut[e].err = Nil /\ Cardinality(DBOf(e).indices) = Cardinality(SHA1s)

\* C8: from every reachable database of either engine, an Index that
\* InsertIndexes inserts while its sha1 is not stored (not in the database
\* before the call, not earlier in the batch) is what SelectIndexBySha1 returns
\* for the hex of its sha1, and SelectIndexByArtifactIDAndGroupID returns for
\* its pair a stored Index of that group_id and artifact_id, not the zero value.
C8_RoundTrip ==
    \A e \in engines : \A indexes \in Batches :
        LET r == InsertIndexes(e.backend, DBOf(e), indexes, NoFault)
        IN r.err = Nil =>
              \A x \in FirstPerSha1(indexes) :
                  RowsWithSha1(DBOf(e), x.sha1) = {} =>
                      /\ SelectIndexBySha1(r.db, EncodeToString(x.sha1)) = { Outcome(x, NoRows, Nil) }
                      /\ \A o \in SelectIndexByArtifactIDAndGroupID(r.db, x.artifact_id, x.group_id) :
                            /\ o.err = Nil
                            /\ o.index # ZeroIndex
                            /\ o.index.group_id = x.group_id
                            /\ o.index.artifact_id = x.artifact_id

\* C8 witness: SelectIndexBySha1 returned an Index that was inserted.
C8_Witness ==
    /\ lastOp = "SelectIndexBySha1"
    /\ \A e \in engines : lastOut[e].err = Nil /\ lastOut[e].index \in IndexDomain

\* C9: in every reachable database of either engine, for every stored Index
\* row (an indices row with its artifacts row) of the artifact_id, version and
\* archive_type asked for, SelectIndexesByArtifactIDAndFileType returns an
\* Index with the group_id of that row.
C9_EveryGroupReturned ==
    \A e \in engines : \A a \in QueryArtifactIDs, v \in QueryVersions, t \in QueryFileTypes :
        \A j \in Joined(DBOf(e)) :
            (j.a.artifact_id = a /\ j.i.version = v /\ j.i.archive_type = t) =>
                \A o \in SelectIndexesByArtifactIDAndFileType(DBOf(e), a, v, t) :
                    o.err = Nil /\ \E x \in DOMAIN o.indexes : x.group_id = j.a.group_id

\* C9 witness: the query returned Indexes of both groups.
C9_Witness ==
    /\ lastOp = "SelectIndexesByArtifactIDAndFileType"
    /\ \A e \in engines : { x.group_id : x \in DOMAIN lastOut[e].indexes } = { "org.example", "org.other" }

\* C10: every Index that SelectIndexesByArtifactIDAndFileType returns has the
\* artifact_id and the archive_type asked for and belongs to a pair that has a
\* stored row of the version and archive_type asked for, and no stored row is
\* returned more than once.
C10_OnlyMatchingRowsOnce ==
    \A e \in engines : \A a \in QueryArtifactIDs, v \in QueryVersions, t \in QueryFileTypes :
        \A o \in SelectIndexesByArtifactIDAndFileType(DBOf(e), a, v, t) :
            \A x \in DOMAIN o.indexes :
                /\ x.artifact_id = a
                /\ x.archive_type = t
                /\ \E j \in Joined(DBOf(e)) : /\ j.a.group_id = x.group_id /\ j.a.artifact_id = x.artifact_id
                                              /\ j.i.version = v /\ j.i.archive_type = t
                /\ o.indexes[x] <= 1

\* C5: given the same calls, the two engines return the same success or error
\* from every call and hold databases every query answers alike.
C5_BackendsAgree ==
    \A e1, e2 \in engines :
        /\ (lastOut[e1].err = Nil) <=> (lastOut[e2].err = Nil)
        /\ QueryResults(DBOf(e1)) = QueryResults(DBOf(e2))

\* C3: whenever build() is about to call Init, the target of the configured
\* engine holds no schema and no rows.
C3_InitOnEmptyTarget == pc = "Init" => store[conf.target] = EmptyDB

\* C4: once a build has failed, no Metadata record exists.
C4_NoMetadataAfterFailedBuild == lastBuild = "failed" => ~meta

====
